---- MODULE Spec2Model ----
(***************************************************************************)
(* Storage proof verification of pallets/vector/src/storage_utils.rs:      *)
(* get_storage_value, get_storage_root and the width normalizer            *)
(* rlp_to_h256, with the RLP view (crate rlp) and the trie lookup          *)
(* (patricia_merkle_trie / trie_db) they call.                             *)
(*                                                                         *)
(* Bytes are the integers 0..255 and byte strings are sequences of them.   *)
(***************************************************************************)
EXTENDS Integers, Sequences, FiniteSets, TLC

\* ------------------------------------------------------------------ bounds

\* Longest byte string offered as a decoded field (crosses H256_LENGTH).
MaxLen == 34
\* Most items in an offered account list (crosses the 4 of an account).
MaxItems == 5
\* State / storage roots a caller may pass.
NumRoots == 2
\* Addresses / slot hashes a caller may pass.
NumTargets == 2
\* Invocations that may be in flight at once in SpecConc.
NumThreads == 2

\* const H256_LENGTH: usize = 32;
H256_LENGTH == 32

Threads == 1..NumThreads
Roots == 1..NumRoots
Targets == 1..NumTargets

\* ------------------------------------------------------------ error values

StorageValueError == "StorageValueError"
AccountNotFound == "AccountNotFound"
CannotDecodeItems == "CannotDecodeItems"
StorageError == {StorageValueError, AccountNotFound, CannotDecodeItems}

NoBytes == << >>
Ok(v) == [tag |-> "Ok", val |-> v, err |-> "-"]
Err(e) == [tag |-> "Err", val |-> NoBytes, err |-> e]
NoResult == [tag |-> "-", val |-> NoBytes, err |-> "-"]

\* ------------------------------------------------------------- RLP decoder
\* The part of crate rlp (0.5) the verifiers use: Rlp::data, Rlp::item_count
\* and Rlp::at, over PayloadInfo.

BadInfo == [ok |-> FALSE, header_len |-> 0, value_len |-> 0]
Info(h, v) == [ok |-> TRUE, header_len |-> h, value_len |-> v]

RECURSIVE decode_usize(_)
\* Big-endian length bytes to an integer.
decode_usize(bs) ==
    IF Len(bs) = 0 THEN 0
    ELSE decode_usize(SubSeq(bs, 1, Len(bs) - 1)) * 256 + bs[Len(bs)]

\* Header of a long string or long list: len_of_len length bytes follow the
\* prefix; a zero first length byte and a length of at most 55 are rejected.
calculate_payload_info(header_bytes, len_of_len) ==
    LET header_len == 1 + len_of_len IN
    IF Len(header_bytes) < 2 THEN BadInfo
    ELSE IF header_bytes[2] = 0 THEN BadInfo
    ELSE IF Len(header_bytes) < header_len THEN BadInfo
    ELSE LET value_len == decode_usize(SubSeq(header_bytes, 2, header_len)) IN
         IF value_len <= 55 THEN BadInfo ELSE Info(header_len, value_len)

\* PayloadInfo::from followed by the length check of BasicDecoder::payload_info.
payload_info(bytes) ==
    IF Len(bytes) = 0 THEN BadInfo
    ELSE LET l == bytes[1]
             pi == IF l <= 127 THEN Info(0, 1)                        \* 0x7f
                   ELSE IF l <= 183 THEN Info(1, l - 128)             \* 0xb7
                   ELSE IF l <= 191 THEN calculate_payload_info(bytes, l - 183)
                   ELSE IF l <= 247 THEN Info(1, l - 192)             \* 0xf7
                   ELSE calculate_payload_info(bytes, l - 247)
         IN IF pi.ok /\ pi.header_len + pi.value_len <= Len(bytes) THEN pi ELSE BadInfo

\* Rlp::is_list: not empty and the prefix is a list prefix (>= 0xc0).
is_list(bytes) == Len(bytes) > 0 /\ bytes[1] >= 192

BadBytes == [ok |-> FALSE, bytes |-> NoBytes]
GoodBytes(b) == [ok |-> TRUE, bytes |-> b]

\* Rlp::data: the payload of a byte-string item; a list is not data.
data(bytes) ==
    IF Len(bytes) = 0 THEN BadBytes
    ELSE LET l == bytes[1] IN
         IF l <= 127 THEN GoodBytes(<<l>>)
         ELSE IF l <= 183 THEN
              LET last_index_of == 1 + l - 128 IN
              IF Len(bytes) < last_index_of THEN BadBytes
              ELSE LET d == SubSeq(bytes, 2, last_index_of) IN
                   IF l = 129 /\ d[1] < 128 THEN BadBytes
                   ELSE GoodBytes(d)
         ELSE IF l <= 191 THEN
              LET len_of_len == l - 183
                  begin_of_value == 1 + len_of_len IN
              IF Len(bytes) < begin_of_value THEN BadBytes
              ELSE LET len == decode_usize(SubSeq(bytes, 2, begin_of_value))
                       last_index_of_value == begin_of_value + len IN
                   IF Len(bytes) < last_index_of_value THEN BadBytes
                   ELSE GoodBytes(SubSeq(bytes, begin_of_value + 1, last_index_of_value))
         ELSE BadBytes

RECURSIVE consume_items(_, _)
\* Rlp::consume_items: skip `items` whole items from the front of bytes.
consume_items(bytes, items) ==
    IF items = 0 THEN GoodBytes(bytes)
    ELSE LET i == payload_info(bytes) IN
         IF ~i.ok THEN BadBytes
         ELSE consume_items(SubSeq(bytes, i.header_len + i.value_len + 1, Len(bytes)),
                            items - 1)

\* Rlp::at(index), index counted from 0: the bytes of that item of the list.
at(bytes, index) ==
    IF ~is_list(bytes) THEN BadBytes
    ELSE LET list == payload_info(bytes) IN
         IF ~list.ok THEN BadBytes
         ELSE LET payload == SubSeq(bytes, list.header_len + 1,
                                    list.header_len + list.value_len)
                  rest == consume_items(payload, index) IN
              IF ~rest.ok THEN BadBytes
              ELSE LET found == payload_info(rest.bytes) IN
                   IF ~found.ok THEN BadBytes
                   ELSE GoodBytes(SubSeq(rest.bytes, 1, found.header_len + found.value_len))

RECURSIVE count_from(_, _)
\* RlpIterator: items are taken with at(index) until the first failure.
count_from(bytes, index) ==
    IF at(bytes, index).ok THEN count_from(bytes, index + 1) ELSE index

BadCount == [ok |-> FALSE, n |-> 0]
\* Rlp::item_count: an error unless the value is a list.
item_count(bytes) ==
    IF is_list(bytes) THEN [ok |-> TRUE, n |-> count_from(bytes, 0)] ELSE BadCount

\* ------------------------------------------------------------- RLP encoder
\* What a node of the remote chain stores in its tries: the standard RLP
\* encoding of a byte string or of a list (as in the test vectors).

rlp_encode_str(s) ==
    IF Len(s) = 1 /\ s[1] < 128 THEN s
    ELSE IF Len(s) <= 55 THEN <<128 + Len(s)>> \o s
    ELSE <<184, Len(s)>> \o s                                   \* 0xb8, one length byte

RECURSIVE concat(_)
concat(items) == IF Len(items) = 0 THEN NoBytes ELSE Head(items) \o concat(Tail(items))

rlp_encode_list(items) ==
    LET payload == concat(items) IN
    IF Len(payload) <= 55 THEN <<192 + Len(payload)>> \o payload
    ELSE <<248, Len(payload)>> \o payload                       \* 0xf8, one length byte

\* ------------------------------------------------------- offered trie values

\* len bytes first, first + step, first + 2 step, ...
ByteStr(len, first, step) == [j \in 1..len |-> (first + (j - 1) * step) % 256]

\* all zero; leading zero then rising; all one ([1u8; n] of the tests);
\* distinct bytes; bytes above 0x7f.
Patterns == {<<0, 0>>, <<0, 1>>, <<1, 0>>, <<1, 1>>, <<128, 1>>}

FieldStrings == {ByteStr(len, p[1], p[2]) : len \in 0..MaxLen, p \in Patterns}

\* A byte string of more than 55 bytes (long-form RLP header).
LongString == ByteStr(56, 1, 1)

\* What was encoded into a trie value.  kind "str": the byte string s.
\* kind "list": n items, the item at index 2 being the byte string s
\* (third = "str") or a nested list (third = "list"); alt changes the items
\* at index 0, 1 and 3.  damage "truncated" drops the last byte of the
\* encoding, "indirect" encodes a single byte below 0x80 with a 0x81 prefix.
StrShape(s, d) ==
    [kind |-> "str", s |-> s, n |-> 0, alt |-> FALSE, third |-> "-", damage |-> d]
ListShape(n, alt, third, s, d) ==
    [kind |-> "list", s |-> s, n |-> n, alt |-> alt, third |-> third, damage |-> d]

\* The items of an account record (nonce, balance, storage root, code hash)
\* and of lists of other lengths.
account_item(sh, index) ==
    CASE index = 0 -> IF sh.alt THEN rlp_encode_list(<< >>) ELSE rlp_encode_str(<<2>>)
      [] index = 1 -> IF sh.alt THEN rlp_encode_str(<<1, 0>>) ELSE rlp_encode_str(NoBytes)
      [] index = 2 -> IF sh.third = "list" THEN rlp_encode_list(<<rlp_encode_str(<<7>>)>>)
                      ELSE rlp_encode_str(sh.s)
      [] index = 3 -> IF sh.alt THEN rlp_encode_str(ByteStr(H256_LENGTH + 1, 9, 1))
                      ELSE rlp_encode_str(ByteStr(H256_LENGTH, 200, 1))
      [] OTHER -> rlp_encode_str(<<index>>)

DropLast(bytes) == SubSeq(bytes, 1, Len(bytes) - 1)

\* The bytes stored in the trie for a shape.
encode(sh) ==
    LET whole == IF sh.kind = "str"
                 THEN (IF sh.damage = "indirect" THEN <<129>> \o sh.s
                       ELSE rlp_encode_str(sh.s))
                 ELSE rlp_encode_list([i \in 1..sh.n |-> account_item(sh, i - 1)])
    IN IF sh.damage = "truncated" THEN DropLast(whole) ELSE whole

StrShapes ==
    {StrShape(s, d) : s \in FieldStrings \cup {LongString}, d \in {"none", "truncated"}}
        \cup {StrShape(<<5>>, "indirect")}

ListShapes ==
    {ListShape(n, alt, "str", s, "none") :
        n \in 3..MaxItems, alt \in BOOLEAN, s \in FieldStrings}
        \cup {ListShape(n, alt, "-", NoBytes, d) :
                n \in 0..2, alt \in BOOLEAN, d \in {"none", "truncated"}}
        \cup {ListShape(n, alt, "list", NoBytes, "none") : n \in 3..MaxItems, alt \in BOOLEAN}
        \cup {ListShape(n, FALSE, "str", ByteStr(H256_LENGTH, 1, 1), "truncated") :
                n \in 3..MaxItems}

AllShapes == StrShapes \cup ListShapes

\* A few shapes for calls whose proof, root or key do not match.
SampleShapes ==
    {StrShape(ByteStr(2, 1, 1), "none"), StrShape(NoBytes, "none"),
     ListShape(4, FALSE, "str", ByteStr(H256_LENGTH, 1, 1), "none"),
     ListShape(4, FALSE, "str", ByteStr(3, 0, 1), "none")}

\* The shapes of calls in flight at once.
ConcShapes == SampleShapes

\* ------------------------------------------------------------- rlp_to_h256

RECURSIVE write_bytes_reversed(_, _, _, _)
\* Mutant: the bytes are written in little-endian order.
write_bytes_reversed(slot_value, value, offset, i) ==
    IF i >= Len(value) THEN slot_value
    ELSE write_bytes_reversed([slot_value EXCEPT ![H256_LENGTH - i] = value[i + 1]],
                              value, offset, i + 1)

RECURSIVE write_bytes(_, _, _, _)
\* for (i, v) in value.iter().enumerate() { slot_value[i + offset] = *v; }
\* (i counts from 0; sequences are indexed from 1)
write_bytes(slot_value, value, offset, i) ==
    IF i >= Len(value) THEN slot_value
    ELSE write_bytes([slot_value EXCEPT ![i + offset + 1] = value[i + 1]],
                     value, offset, i + 1)

\* Mutant: a value of exactly 32 bytes is rejected too.
too_long_at_32(value) == Len(value) >= H256_LENGTH

\* value.len() > H256_LENGTH
too_long(value) == Len(value) > H256_LENGTH

\* Mutant: no offset, the value is left-aligned.
offset_left_aligned(value) == 0

\* let offset = H256_LENGTH - value.len();
offset_of(value) == H256_LENGTH - Len(value)

\* [0u8; H256_LENGTH]
zero_slot == [k \in 1..H256_LENGTH |-> 0]

\* Mutant: a longer value is cut to its last 32 bytes.
rlp_to_h256_truncating(value) ==
    IF too_long(value)
    THEN Ok(SubSeq(value, Len(value) - H256_LENGTH + 1, Len(value)))
    ELSE Ok(write_bytes(zero_slot, value, offset_of(value), 0))

\* Mutant: a longer value yields the default H256.
rlp_to_h256_or_default(value) ==
    IF too_long(value) THEN Ok(zero_slot)
    ELSE Ok(write_bytes(zero_slot, value, offset_of(value), 0))

rlp_to_h256(value) ==
    IF too_long(value) THEN Err(CannotDecodeItems)
    ELSE Ok(write_bytes(zero_slot, value, offset_of(value), 0))

\* ------------------------------------------------- key derivation and trie

\* keccak256 over the identifiers of the model: injective, not the identity.
keccak256(x) == (x * 5 + 3) % 11

\* A proof: the nodes from the root `anchor` along the path of one key to a
\* leaf holding a value ("value"), to a proof of exclusion ("absent"), or
\* with a node missing or mismatched on the way ("broken").
LeafKinds == {"value", "absent", "broken"}
MakeProof(anchor, path_of, kind, bytes) ==
    [anchor |-> anchor, path |-> keccak256(path_of), kind |-> kind,
     bytes |-> IF kind = "value" THEN bytes ELSE NoBytes]

\* StorageProof::new(proof).into_memory_db(): the nodes of this call's proof.
into_memory_db(p) == p

TrieSome(v) == [tag |-> "Some", bytes |-> v]
TrieNone == [tag |-> "None", bytes |-> NoBytes]
TrieErr == [tag |-> "Err", bytes |-> NoBytes]

\* trie.get(key) on the trie of `db` rooted at `r`: Ok(Some(value)),
\* Ok(None) or Err.  A root or a path whose nodes the db does not hold is an
\* incomplete database.
trie_get(db, r, k) ==
    IF db.anchor # r \/ db.path # k \/ db.kind = "broken" THEN TrieErr
    ELSE IF db.kind = "absent" THEN TrieNone
    ELSE TrieSome(db.bytes)

\* ------------------------------------------------------------------- state

VARIABLES
    pc,          \* per invocation: where it stands
    fn,          \* per invocation: the function called
    proof,       \* argument: the proof
    root,        \* argument: state_root / storage_root
    target,      \* argument: address / slot_hash
    key,         \* local: keccak256 of the target
    trie_value,  \* local: what trie.get returned
    value,       \* local: rlp_storage_value / item, the argument of rlp_to_h256
    result,      \* the returned Result<H256, StorageError>
    steps,       \* history: the steps this invocation has executed
    shape        \* history: what the proof's leaf value encodes

vars == <<pc, fn, proof, root, target, key, trie_value, value, result, steps, shape>>

NoProof == MakeProof(0, 0, "broken", NoBytes)
NoShape == StrShape(NoBytes, "-")
NoLookup == [tag |-> "-", bytes |-> NoBytes]

Init ==
    /\ pc = [t \in Threads |-> "idle"]
    /\ fn = [t \in Threads |-> "-"]
    /\ proof = [t \in Threads |-> NoProof]
    /\ root = [t \in Threads |-> 0]
    /\ target = [t \in Threads |-> 0]
    /\ key = [t \in Threads |-> 0]
    /\ trie_value = [t \in Threads |-> NoLookup]
    /\ value = [t \in Threads |-> NoBytes]
    /\ result = [t \in Threads |-> NoResult]
    /\ steps = [t \in Threads |-> << >>]
    /\ shape = [t \in Threads |-> NoShape]

\* The arguments of one call of a verifier.
Input(sh, anchor, path_of, kind, r, tg) ==
    [shape |-> IF kind = "value" THEN sh ELSE NoShape,
     proof |-> MakeProof(anchor, path_of, kind, encode(sh)), root |-> r, target |-> tg]

\* Matching proofs carry every shape; mismatches and absent or broken leaves
\* carry the sample shapes.
SeqInputs ==
    {Input(sh, 1, 1, "value", 1, 1) : sh \in AllShapes}
        \cup {Input(sh, a, p, k, r, tg) :
                sh \in SampleShapes, a \in Roots, p \in Targets, k \in LeafKinds,
                r \in Roots, tg \in Targets}

ConcInputs ==
    {Input(sh, 1, 1, k, r, 1) : sh \in ConcShapes, k \in LeafKinds, r \in {1, 2}}

SeqValues == FieldStrings \cup {LongString}
ConcValues == {ByteStr(2, 1, 1), ByteStr(H256_LENGTH + 1, 0, 0)}

SeqThreads == {1}

\* Mutant: one db kept across invocations, built from the first one's proof.
shared_db(t) == into_memory_db(proof[1])

\* The db an invocation looks its key up in: built from its own proof.
call_db(t) == into_memory_db(proof[t])

\* A new invocation starts with no local set and nothing returned.
Fresh(t) ==
    /\ key' = [key EXCEPT ![t] = 0]
    /\ trie_value' = [trie_value EXCEPT ![t] = NoLookup]
    /\ result' = [result EXCEPT ![t] = NoResult]
    /\ steps' = [steps EXCEPT ![t] = << >>]

\* A caller invokes get_storage_value(slot_hash, storage_root, proof).
CallGetStorageValue(t, inputs) ==
    /\ pc[t] = "idle"
    /\ \E in \in inputs :
        /\ proof' = [proof EXCEPT ![t] = in.proof]
        /\ root' = [root EXCEPT ![t] = in.root]
        /\ target' = [target EXCEPT ![t] = in.target]
        /\ shape' = [shape EXCEPT ![t] = in.shape]
    /\ fn' = [fn EXCEPT ![t] = "get_storage_value"]
    /\ pc' = [pc EXCEPT ![t] = "gsv_lookup"]
    /\ Fresh(t)
    /\ UNCHANGED value

\* A caller invokes get_storage_root(proof, address, state_root).
CallGetStorageRoot(t, inputs) ==
    /\ pc[t] = "idle"
    /\ \E in \in inputs :
        /\ proof' = [proof EXCEPT ![t] = in.proof]
        /\ root' = [root EXCEPT ![t] = in.root]
        /\ target' = [target EXCEPT ![t] = in.target]
        /\ shape' = [shape EXCEPT ![t] = in.shape]
    /\ fn' = [fn EXCEPT ![t] = "get_storage_root"]
    /\ pc' = [pc EXCEPT ![t] = "gsr_lookup"]
    /\ Fresh(t)
    /\ UNCHANGED value

\* rlp_to_h256(value) called on its own, as the unit tests do.
CallRlpToH256(t, values) ==
    /\ pc[t] = "idle"
    /\ \E v \in values : value' = [value EXCEPT ![t] = v]
    /\ fn' = [fn EXCEPT ![t] = "rlp_to_h256"]
    /\ pc' = [pc EXCEPT ![t] = "normalize"]
    /\ Fresh(t)
    /\ UNCHANGED <<proof, root, target, shape>>

\* The caller has taken the result; the invocation's frame is gone.
Drop(t) ==
    /\ pc[t] = "done"
    /\ pc' = [pc EXCEPT ![t] = "idle"]
    /\ fn' = [fn EXCEPT ![t] = "-"]
    /\ proof' = [proof EXCEPT ![t] = NoProof]
    /\ root' = [root EXCEPT ![t] = 0]
    /\ target' = [target EXCEPT ![t] = 0]
    /\ shape' = [shape EXCEPT ![t] = NoShape]
    /\ value' = [value EXCEPT ![t] = NoBytes]
    /\ Fresh(t)

\* Mutant: only a fault fails the lookup, an absent key goes on.
found_or_absent(got) == got.tag # "Err"

\* let Ok(Some(trie_value)) = trie.get(..) else { return Err(..) }
found(got) == got.tag = "Some"

\* One step of an invocation: it goes on to `next`, or returns `res`.
GoOn(t, label, next) ==
    /\ pc' = [pc EXCEPT ![t] = next]
    /\ steps' = [steps EXCEPT ![t] = Append(@, label)]
    /\ UNCHANGED result

Return(t, label, res) ==
    /\ pc' = [pc EXCEPT ![t] = "done"]
    /\ steps' = [steps EXCEPT ![t] = Append(@, label)]
    /\ result' = [result EXCEPT ![t] = res]

\* get_storage_value, lines 30-37: key, db, trie, trie.get(&key).
GsvLookup(t) ==
    /\ pc[t] = "gsv_lookup"
    /\ LET k == keccak256(target[t])
           got == trie_get(call_db(t), root[t], k)
       IN /\ key' = [key EXCEPT ![t] = k]
          /\ IF found(got)
             THEN /\ trie_value' = [trie_value EXCEPT ![t] = got]
                  /\ GoOn(t, "lookup", "gsv_data")
             ELSE /\ UNCHANGED trie_value
                  /\ Return(t, "lookup", Err(StorageValueError))
    /\ UNCHANGED <<fn, proof, root, target, value, shape>>

\* get_storage_value, lines 39-41: Rlp::new(trie_value).data().
GsvData(t) ==
    /\ pc[t] = "gsv_data"
    /\ LET d == data(trie_value[t].bytes)
       IN IF d.ok
          THEN /\ value' = [value EXCEPT ![t] = d.bytes]
               /\ GoOn(t, "data", "gsv_empty")
          ELSE /\ UNCHANGED value
               /\ Return(t, "data", Err(CannotDecodeItems))
    /\ UNCHANGED <<fn, proof, root, target, key, trie_value, shape>>

\* Mutant: the empty byte string is not rejected.
is_empty_never(v) == FALSE

\* rlp_storage_value.is_empty()
is_empty(v) == Len(v) = 0

\* get_storage_value, lines 43-45: the empty byte string is rejected.
GsvEmpty(t) ==
    /\ pc[t] = "gsv_empty"
    /\ IF is_empty(value[t])
       THEN Return(t, "empty", Err(CannotDecodeItems))
       ELSE GoOn(t, "empty", "gsv_normalize")
    /\ UNCHANGED <<fn, proof, root, target, key, trie_value, value, shape>>

\* get_storage_value, lines 47-49: rlp_to_h256(rlp_storage_value)?, Ok.
GsvNormalize(t) ==
    /\ pc[t] = "gsv_normalize"
    /\ Return(t, "normalize", rlp_to_h256(value[t]))
    /\ UNCHANGED <<fn, proof, root, target, key, trie_value, value, shape>>

\* get_storage_root, lines 58-65: key, db, trie, trie.get(key).
GsrLookup(t) ==
    /\ pc[t] = "gsr_lookup"
    /\ LET k == keccak256(target[t])
           got == trie_get(call_db(t), root[t], k)
       IN /\ key' = [key EXCEPT ![t] = k]
          /\ IF found(got)
             THEN /\ trie_value' = [trie_value EXCEPT ![t] = got]
                  /\ GoOn(t, "lookup", "gsr_count")
             ELSE /\ UNCHANGED trie_value
                  /\ Return(t, "lookup", Err(StorageValueError))
    /\ UNCHANGED <<fn, proof, root, target, value, shape>>

\* Mutant: lists of more than 4 items pass the count check.
count_error_at_least_4(c) ==
    IF ~c.ok THEN StorageValueError
    ELSE IF c.n < 4 THEN AccountNotFound
    ELSE "-"

\* The result of the item count step of get_storage_root (lines 69-75):
\* the error it returns, or "-" when it goes on.
count_error(c) ==
    IF ~c.ok THEN StorageValueError
    ELSE IF c.n # 4 THEN AccountNotFound
    ELSE "-"

\* get_storage_root, lines 67-75: r.item_count(), item_count != 4.
GsrCount(t) ==
    /\ pc[t] = "gsr_count"
    /\ LET e == count_error(item_count(trie_value[t].bytes))
       IN IF e = "-" THEN GoOn(t, "count", "gsr_item")
          ELSE Return(t, "count", Err(e))
    /\ UNCHANGED <<fn, proof, root, target, key, trie_value, value, shape>>

\* Mutant: the code hash (index 3) is taken for the storage root.
item_at_3(bytes) ==
    LET e == at(bytes, 3) IN IF e.ok THEN data(e.bytes) ELSE BadBytes

\* Mutant: an empty item at index 2 is refused, as get_storage_value
\* refuses an empty value.
item_at_2_nonempty(bytes) ==
    LET e == at(bytes, 2)
        d == IF e.ok THEN data(e.bytes) ELSE BadBytes
    IN IF d.ok /\ Len(d.bytes) = 0 THEN BadBytes ELSE d

\* r.at(2).and_then(|e| e.data())
item_at_2(bytes) ==
    LET e == at(bytes, 2) IN IF e.ok THEN data(e.bytes) ELSE BadBytes

\* The error of a failed extraction of the item at index 2 (line 78).
item_error == StorageValueError

\* get_storage_root, lines 77-79: the item at index 2 as a byte string.
GsrItem(t) ==
    /\ pc[t] = "gsr_item"
    /\ LET i == item_at_2(trie_value[t].bytes)
       IN IF i.ok
          THEN /\ value' = [value EXCEPT ![t] = i.bytes]
               /\ GoOn(t, "item", "gsr_normalize")
          ELSE /\ UNCHANGED value
               /\ Return(t, "item", Err(item_error))
    /\ UNCHANGED <<fn, proof, root, target, key, trie_value, shape>>

\* get_storage_root, lines 81-83: rlp_to_h256(item)?, Ok.
GsrNormalize(t) ==
    /\ pc[t] = "gsr_normalize"
    /\ Return(t, "normalize", rlp_to_h256(value[t]))
    /\ UNCHANGED <<fn, proof, root, target, key, trie_value, value, shape>>

\* rlp_to_h256 called on its own.
Normalize(t) ==
    /\ pc[t] = "normalize"
    /\ Return(t, "normalize", rlp_to_h256(value[t]))
    /\ UNCHANGED <<fn, proof, root, target, key, trie_value, value, shape>>

Step(t) ==
    \/ GsvLookup(t)
    \/ GsvData(t)
    \/ GsvEmpty(t)
    \/ GsvNormalize(t)
    \/ GsrLookup(t)
    \/ GsrCount(t)
    \/ GsrItem(t)
    \/ GsrNormalize(t)
    \/ Normalize(t)
    \/ Drop(t)

\* Calls made one after the other.
Next ==
    \E t \in SeqThreads :
        \/ CallGetStorageValue(t, SeqInputs)
        \/ CallGetStorageRoot(t, SeqInputs)
        \/ CallRlpToH256(t, SeqValues)
        \/ Step(t)

Spec == Init /\ [][Next]_vars

\* Calls in flight at once, their steps interleaved.
NextConc ==
    \E t \in Threads :
        \/ CallGetStorageValue(t, ConcInputs)
        \/ CallGetStorageRoot(t, ConcInputs)
        \/ CallRlpToH256(t, ConcValues)
        \/ Step(t)

SpecConc == Init /\ [][NextConc]_vars

\* ------------------------------------------------------------------ claims

Done(t) == pc[t] = "done"
Last(q) == q[Len(q)]

\* b right-aligned in 32 zero bytes, as the specification words it.
RightAligned(b) ==
    [k \in 1..32 |-> IF k <= 32 - Len(b) THEN 0 ELSE b[k - (32 - Len(b))]]

AllZero(b) == \A i \in 1..Len(b) : b[i] = 0

\* The proof resolves the derived key under the given root to a value.
Resolves(t) ==
    /\ proof[t].kind = "value"
    /\ proof[t].anchor = root[t]
    /\ proof[t].path = keccak256(target[t])

\* The invocation ran the normalizer on value[t] and has returned.
Normalized(t) == Done(t) /\ Last(steps[t]) = "normalize"

\* C1: for every byte string b of at most 32 bytes, rlp_to_h256(b) returns
\* Ok(v) with v of 32 bytes, v[i] = 0 for i < 32 - len(b) and
\* v[32 - len(b) + j] = b[j] for j < len(b); the empty input gives the
\* all-zero value and a 32-byte input is returned unchanged.
C1_RightAligned ==
    \A t \in Threads :
        (Normalized(t) /\ Len(value[t]) <= 32) =>
            LET b == value[t]
                v == result[t].val
            IN /\ result[t].tag = "Ok"
               /\ Len(v) = 32
               /\ \A i \in 0..(32 - Len(b) - 1) : v[i + 1] = 0
               /\ \A j \in 0..(Len(b) - 1) : v[32 - Len(b) + j + 1] = b[j + 1]
               /\ (Len(b) = 0 => AllZero(v))
               /\ (Len(b) = 32 => v = b)

C1_Witness ==
    /\ Done(1) /\ fn[1] = "rlp_to_h256"
    /\ value[1] = ByteStr(31, 1, 1)
    /\ result[1].tag = "Ok"
    /\ result[1].val[1] = 0 /\ result[1].val[2] = 1 /\ result[1].val[32] = 31

\* C2: for every byte string b of more than 32 bytes, rlp_to_h256(b) returns
\* Err(CannotDecodeItems) and never a value, whatever the bytes are (also
\* when the excess leading bytes are zero).
C2_TooLong ==
    \A t \in Threads :
        (Normalized(t) /\ Len(value[t]) > 32) => result[t] = Err(CannotDecodeItems)

C2_Witness ==
    /\ Done(1) /\ fn[1] = "rlp_to_h256"
    /\ value[1] = ByteStr(33, 0, 1)
    /\ result[1] = Err(CannotDecodeItems)

\* The looked-up value is an undamaged encoding of a list.
IsListValue(t) == Resolves(t) /\ shape[t].kind = "list" /\ shape[t].damage = "none"

\* C3: in get_storage_root, when the looked-up value parses as an RLP list
\* whose item count is not 4, the call fails with AccountNotFound, never with
\* CannotDecodeItems or StorageValueError, also when the item at index 2 is
\* missing, is not a byte string or is longer than 32 bytes.
C3_WrongCount ==
    \A t \in Threads :
        (/\ Done(t) /\ fn[t] = "get_storage_root"
         /\ \/ IsListValue(t) /\ shape[t].n # 4
            \/ /\ Resolves(t)
               /\ item_count(proof[t].bytes).ok
               /\ item_count(proof[t].bytes).n # 4)
            => result[t] = Err(AccountNotFound)

C3_Witness ==
    /\ Done(1) /\ fn[1] = "get_storage_root"
    /\ IsListValue(1) /\ shape[1].n = 5
    /\ shape[1].third = "str" /\ Len(shape[1].s) = 33
    /\ result[1] = Err(AccountNotFound)

\* C4: in both verifiers, when the lookup of the derived key reports the key
\* absent or faults, the call fails with StorageValueError, the same error
\* in both cases, and no later decoding step is attempted.
C4_LookupFails ==
    \A t \in Threads :
        (/\ Done(t) /\ fn[t] \in {"get_storage_root", "get_storage_value"}
         /\ ~Resolves(t))
            => /\ result[t] = Err(StorageValueError)
               /\ steps[t] = <<"lookup">>

C4_Witness ==
    /\ Done(1) /\ fn[1] = "get_storage_value"
    /\ proof[1].kind = "absent" /\ proof[1].anchor = root[1]
    /\ proof[1].path = keccak256(target[1])
    /\ result[1] = Err(StorageValueError)

\* C5: in get_storage_value, a looked-up value that decodes to the empty byte
\* string fails with CannotDecodeItems; Ok(all-zero) is returned only for a
\* non-empty byte string whose bytes are all zero.
C5_EmptyRejected ==
    \A t \in Threads :
        (Done(t) /\ fn[t] = "get_storage_value") =>
            /\ (/\ Resolves(t) /\ shape[t].kind = "str"
                /\ shape[t].damage = "none" /\ shape[t].s = NoBytes)
                    => result[t] = Err(CannotDecodeItems)
            /\ (result[t].tag = "Ok" /\ AllZero(result[t].val))
                    => /\ Resolves(t) /\ shape[t].kind = "str"
                       /\ Len(shape[t].s) > 0 /\ AllZero(shape[t].s)

C5_Witness ==
    /\ Done(1) /\ fn[1] = "get_storage_value"
    /\ Resolves(1) /\ shape[1] = StrShape(NoBytes, "none")
    /\ steps[1] = <<"lookup", "data", "empty">>
    /\ result[1] = Err(CannotDecodeItems)

\* C6, as claimed: CannotDecodeItems is the error whenever an extracted
\* field is not a byte string, is empty where a value is required, or is
\* longer than 32 bytes: in get_storage_value for a trie value that is not a
\* byte string, in get_storage_root for the item at index 2 of a 4-item list
\* that is not a byte string.
C6_CannotDecodeItems ==
    \A t \in Threads :
        (Done(t) /\ Resolves(t)) =>
            /\ (/\ fn[t] = "get_storage_value"
                /\ \/ shape[t].kind # "str"
                   \/ shape[t].damage # "none"
                   \/ Len(shape[t].s) = 0
                   \/ Len(shape[t].s) > 32)
                    => result[t] = Err(CannotDecodeItems)
            /\ (/\ fn[t] = "get_storage_root"
                /\ IsListValue(t) /\ shape[t].n = 4
                /\ \/ shape[t].third = "list"
                   \/ shape[t].third = "str" /\ Len(shape[t].s) > 32)
                    => result[t] = Err(CannotDecodeItems)

\* The account record is a list of exactly 4 items whose item at index 2 is
\* a byte string of at most 32 bytes.
GoodAccount(t) ==
    /\ IsListValue(t)
    /\ shape[t].n = 4
    /\ shape[t].third = "str"
    /\ Len(shape[t].s) <= 32

\* C7: get_storage_root returns Ok(v) if and only if the lookup of
\* hash(address) under state_root resolves to an RLP list of exactly 4 items
\* whose item at index 2 is a byte string s of at most 32 bytes, and then v
\* is s left-padded with zeros to 32 bytes (items 0, 1 and 3 do not matter);
\* otherwise it returns StorageValueError, AccountNotFound or
\* CannotDecodeItems.
C7_StorageRoot ==
    \A t \in Threads :
        (Done(t) /\ fn[t] = "get_storage_root") =>
            /\ result[t].tag = "Ok" <=> GoodAccount(t)
            /\ GoodAccount(t) => result[t] = Ok(RightAligned(shape[t].s))
            /\ ~GoodAccount(t) =>
                    /\ result[t].tag = "Err"
                    /\ result[t].err \in
                           {StorageValueError, AccountNotFound, CannotDecodeItems}

C7_Witness ==
    /\ Done(1) /\ fn[1] = "get_storage_root"
    /\ GoodAccount(1) /\ shape[1].alt
    /\ shape[1].s = ByteStr(31, 1, 1)
    /\ result[1] = Ok(<<0>> \o ByteStr(31, 1, 1))

\* The slot value is a single byte string of 1 to 32 bytes.
GoodSlot(t) ==
    /\ Resolves(t)
    /\ shape[t].kind = "str"
    /\ shape[t].damage = "none"
    /\ Len(shape[t].s) >= 1
    /\ Len(shape[t].s) <= 32

\* C8: get_storage_value returns Ok(v) if and only if the lookup of
\* hash(slot_hash) under storage_root resolves to a value that decodes as a
\* single byte string s (not a list) of 1 to 32 bytes, and then v is s
\* left-padded with zeros to 32 bytes; otherwise it returns StorageValueError
\* or CannotDecodeItems, never AccountNotFound.
C8_StorageValue ==
    \A t \in Threads :
        (Done(t) /\ fn[t] = "get_storage_value") =>
            /\ result[t].tag = "Ok" <=> GoodSlot(t)
            /\ GoodSlot(t) => result[t] = Ok(RightAligned(shape[t].s))
            /\ ~GoodSlot(t) =>
                    /\ result[t].tag = "Err"
                    /\ result[t].err \in {StorageValueError, CannotDecodeItems}

C8_Witness ==
    /\ Done(1) /\ fn[1] = "get_storage_value"
    /\ GoodSlot(1)
    /\ shape[1].s = <<0, 1, 2>>
    /\ result[1].tag = "Ok"
    /\ SubSeq(result[1].val, 29, 32) = <<0, 0, 1, 2>>

\* The arguments of an invocation.
Args(t) == <<fn[t], proof[t], root[t], target[t], IF fn[t] = "rlp_to_h256" THEN value[t] ELSE NoBytes>>

\* C9: the verifiers keep no state across calls: whatever invocations ran
\* before, after or at the same time, any two invocations with the same
\* arguments return the same result.
C9_SameArgsSameResult ==
    \A t1, t2 \in Threads :
        (Done(t1) /\ Done(t2) /\ Args(t1) = Args(t2)) => result[t1] = result[t2]

C9_Witness ==
    /\ Done(1) /\ Done(2)
    /\ fn[1] = "get_storage_root" /\ Args(1) = Args(2)
    /\ Resolves(1)
    /\ result[1].tag = "Ok" /\ result[2] = result[1]

\* The steps of a call in which every check passed.
FullPath(f) ==
    CASE f = "get_storage_value" -> <<"lookup", "data", "empty", "normalize">>
      [] f = "get_storage_root" -> <<"lookup", "count", "item", "normalize">>
      [] OTHER -> <<"normalize">>

\* Some lookup, decode, count or width check of the call fails.
SomeCheckFails(t) ==
    CASE fn[t] = "get_storage_value" ->
            \/ ~Resolves(t) \/ shape[t].kind # "str" \/ shape[t].damage # "none"
            \/ Len(shape[t].s) = 0 \/ Len(shape[t].s) > 32
      [] fn[t] = "get_storage_root" ->
            \/ ~IsListValue(t) \/ shape[t].n # 4 \/ shape[t].third # "str"
            \/ Len(shape[t].s) > 32
      [] OTHER -> Len(value[t]) > 32

\* C10: no failing step is turned into a default value: a failed lookup,
\* decode, count or width check ends the call with Err, and Ok(all-zero) is
\* returned only when the byte string given to the normalizer was all zero.
C10_NoDefault ==
    \A t \in Threads :
        Done(t) =>
            /\ result[t].tag \in {"Ok", "Err"}
            /\ SomeCheckFails(t) => (result[t].tag = "Err" /\ result[t].err \in StorageError)
            /\ result[t].tag = "Ok" => (steps[t] = FullPath(fn[t]) /\ Len(result[t].val) = 32)
            /\ (result[t].tag = "Ok" /\ AllZero(result[t].val)) =>
                    /\ Normalized(t)
                    /\ Len(value[t]) <= 32
                    /\ AllZero(value[t])
                    /\ fn[t] # "rlp_to_h256" => value[t] = shape[t].s

C10_Witness ==
    /\ Done(1) /\ fn[1] = "get_storage_root"
    /\ GoodAccount(1) /\ shape[1].s = <<0, 0, 0, 0, 0>>
    /\ result[1] = Ok(zero_slot)

\* ------------------------------------------- the normalizer, called in pairs

\* Two callers of rlp_to_h256, so that the results for two inputs can be
\* set side by side.
PairThreads == {1, 2}

\* Values already padded with zeros on the left (as exact_value of
\* test_storage_with_padded_value), besides the byte strings of every length.
PaddedValues ==
    {ByteStr(kl[1], 0, 0) \o ByteStr(kl[2], 1, 1) :
        kl \in {<<k, len>> : k \in {1, 2, H256_LENGTH - 3, H256_LENGTH - 2,
                                    H256_LENGTH - 1}, len \in 1..3}}

PairValues == SeqValues \cup PaddedValues

NextPair ==
    \E t \in PairThreads :
        \/ CallRlpToH256(t, PairValues)
        \/ Normalize(t)
        \/ Drop(t)

SpecPair == Init /\ [][NextPair]_vars

RECURSIVE StripZeros(_)
\* The base-256 numeral of a byte string without its leading zeros: two byte
\* strings denote the same unsigned integer exactly if these are equal.
StripZeros(b) == IF Len(b) > 0 /\ b[1] = 0 THEN StripZeros(Tail(b)) ELSE b

RECURSIVE ValueMod(_)
\* The big-endian unsigned integer of a byte string, modulo the prime
\* 8388593 (the integer itself does not fit a machine word).
ValueMod(b) ==
    IF Len(b) = 0 THEN 0
    ELSE (ValueMod(SubSeq(b, 1, Len(b) - 1)) * 256 + b[Len(b)]) % 8388593

SameInteger(a, b) == StripZeros(a) = StripZeros(b) /\ ValueMod(a) = ValueMod(b)

\* C11: the normalizer never truncates and keeps the big-endian integer:
\* whenever rlp_to_h256(b) succeeds, its 32-byte output denotes the same
\* unsigned integer as b; so for len(b) < 32, rlp_to_h256(b) equals
\* rlp_to_h256([0] ++ b), and normalizing a 32-byte output again returns it
\* unchanged.
C11_IntegerPreserved ==
    \A t1, t2 \in Threads :
        Normalized(t1) =>
            /\ result[t1].tag = "Ok" =>
                    /\ Len(value[t1]) <= 32
                    /\ Len(result[t1].val) = 32
                    /\ SameInteger(result[t1].val, value[t1])
            /\ (/\ Normalized(t2)
                /\ Len(value[t1]) < 32
                /\ value[t2] = <<0>> \o value[t1])
                    => (result[t1].tag = "Ok" /\ result[t2] = result[t1])
            /\ (/\ Normalized(t2)
                /\ result[t1].tag = "Ok"
                /\ value[t2] = result[t1].val)
                    => result[t2] = Ok(value[t2])

C11_Witness ==
    /\ Normalized(1) /\ Normalized(2)
    /\ value[1] = ByteStr(30, 1, 1)
    /\ value[2] = <<0>> \o value[1]
    /\ result[1].tag = "Ok"
    /\ result[2] = result[1]
    /\ SubSeq(result[1].val, 1, 3) = <<0, 0, 1>>

\* C12: get_storage_root does not reject an empty value as get_storage_value
\* does: for a 4-item account record whose item at index 2 is the empty byte
\* string it returns Ok(all-zero), while get_storage_value fails with
\* CannotDecodeItems on an empty decoded byte string.
C12_EmptyRootAccepted ==
    \A t \in Threads :
        (Done(t) /\ Resolves(t) /\ shape[t].damage = "none" /\ shape[t].s = NoBytes) =>
            /\ (/\ fn[t] = "get_storage_root"
                /\ shape[t].kind = "list" /\ shape[t].n = 4 /\ shape[t].third = "str")
                    => /\ result[t] = Ok([k \in 1..32 |-> 0])
                       /\ steps[t] = <<"lookup", "count", "item", "normalize">>
                       /\ value[t] = NoBytes
            /\ (fn[t] = "get_storage_value" /\ shape[t].kind = "str")
                    => /\ result[t] = Err(CannotDecodeItems)
                       /\ result[t] # Ok([k \in 1..32 |-> 0])

C12_Witness ==
    /\ Done(1) /\ fn[1] = "get_storage_root"
    /\ Resolves(1)
    /\ shape[1] = ListShape(4, FALSE, "str", NoBytes, "none")
    /\ value[1] = NoBytes
    /\ result[1].tag = "Ok" /\ AllZero(result[1].val)

====
